---- MODULE Spec2Model ----
(***************************************************************************)
(* Model of serve_cors.py: a static file server (socketserver.TCPServer    *)
(* driving CORSRequestHandler, a SimpleHTTPRequestHandler subclass) that   *)
(* adds CORS and no-cache headers to the responses it writes headers for.  *)
(*                                                                         *)
(* A string is modelled as the sequence of its characters; a character is  *)
(* a one-letter string, except that a percent escape ("%2e", "%2f") is one *)
(* token of a request path, and that a file name the request alphabet      *)
(* cannot spell ("public", "index.html") is one token too.                 *)
(***************************************************************************)
EXTENDS Integers, Sequences, FiniteSets, TLC

\* ------------------------------------------------------------- bounds
\* Longest request path, in tokens, of the path specification.
MaxPathLen == 5
\* Number of client connections.
MaxConns == 2
\* Requests a client may have sent ahead on one connection.
MaxPipelined == 2

\* ------------------------------------------------------------ strings
Range(s) == {s[i] : i \in 1..Len(s)}

IsPrefix(p, s) == Len(p) <= Len(s) /\ SubSeq(s, 1, Len(p)) = p

\* s.split(ch, 1)[0]: the part of s before the first ch, or all of s.
Before(s, ch) ==
  IF \E i \in 1..Len(s) : s[i] = ch
  THEN SubSeq(s, 1, (CHOOSE i \in 1..Len(s) :
                        s[i] = ch /\ \A j \in 1..(i-1) : s[j] # ch) - 1)
  ELSE s

\* s.split("/"): the segments between the slashes, empty ones included.
RECURSIVE Split(_)
Split(s) ==
  IF \E i \in 1..Len(s) : s[i] = "/"
  THEN LET i == CHOOSE k \in 1..Len(s) :
                  s[k] = "/" /\ \A j \in 1..(k-1) : s[j] # "/"
       IN <<SubSeq(s, 1, i-1)>> \o Split(SubSeq(s, i+1, Len(s)))
  ELSE <<s>>

\* "/".join(comps)
RECURSIVE Join(_)
Join(comps) ==
  IF comps = <<>> THEN <<>>
  ELSE IF Len(comps) = 1 THEN comps[1]
  ELSE comps[1] \o <<"/">> \o Join(Tail(comps))

\* s.lstrip("/")
RECURSIVE LStripSlash(_)
LStripSlash(s) ==
  IF s # <<>> /\ s[1] = "/" THEN LStripSlash(Tail(s)) ELSE s

\* urllib.parse.unquote: each percent escape becomes the character it encodes.
unquote(s) ==
  [i \in 1..Len(s) |-> IF s[i] = "%2e" THEN "."
                       ELSE IF s[i] = "%2f" THEN "/" ELSE s[i]]

dot == <<".">>
dotdot == <<".", ".">>

\* posixpath.normpath's loop over the components.
RECURSIVE NormComps(_, _, _)
NormComps(comps, new_comps, initial_slashes) ==
  IF comps = <<>> THEN new_comps
  ELSE LET comp == Head(comps) IN
    IF comp = <<>> \/ comp = dot
    THEN NormComps(Tail(comps), new_comps, initial_slashes)
    ELSE IF comp # dotdot
            \/ (initial_slashes = 0 /\ new_comps = <<>>)
            \/ (new_comps # <<>> /\ new_comps[Len(new_comps)] = dotdot)
    THEN NormComps(Tail(comps), Append(new_comps, comp), initial_slashes)
    ELSE IF new_comps # <<>>
    THEN NormComps(Tail(comps), SubSeq(new_comps, 1, Len(new_comps) - 1),
                   initial_slashes)
    ELSE NormComps(Tail(comps), new_comps, initial_slashes)

\* posixpath.normpath
normpath(path) ==
  IF path = <<>> THEN dot
  ELSE LET initial_slashes ==
             IF path[1] # "/" THEN 0
             ELSE IF Len(path) >= 2 /\ path[2] = "/"
                     /\ ~(Len(path) >= 3 /\ path[3] = "/") THEN 2
             ELSE 1
           joined == Join(NormComps(Split(path), <<>>, initial_slashes))
           out == [i \in 1..initial_slashes |-> "/"] \o joined
       IN IF out = <<>> THEN dot ELSE out

\* ---------------------------------------------------------- filesystem
\* The process's working directory and the --dir argument (default "public").
cwd == << <<"w">> >>
directory == << <<"public">> >>
RootDir == cwd \o directory

\* The directories and the regular files of the machine: the served root holds a
\* file "a", a directory "aa" with an index.html, and a directory "aaa" without
\* one; files named alike lie outside the root.
Dirs == { <<>>, cwd, RootDir,
          RootDir \o << <<"a", "a">> >>,
          RootDir \o << <<"a", "a", "a">> >>,
          << <<"a", "a">> >> }
Files == { RootDir \o << <<"a">> >>,
           RootDir \o << <<"a", "a">>, <<"index.html">> >>,
           RootDir \o << <<"a", "a">>, <<"a">> >>,
           RootDir \o << <<"a", "a", "a">>, <<"a">> >>,
           cwd \o << <<"a">> >>,
           << <<"a">> >>,
           << <<"a", "a">>, <<"a">> >> }

NoEnt == << <<"ENOENT">> >>

\* The kernel's walk of a relative path from cwd: "." stays, ".." goes to the
\* parent, a name enters it; a step through anything but a directory fails.
RECURSIVE Walk(_, _)
Walk(at, names) ==
  IF names = <<>> THEN at
  ELSE IF at \notin Dirs THEN NoEnt
  ELSE LET n == Head(names) IN
    IF n = dot THEN Walk(at, Tail(names))
    ELSE IF n = dotdot
    THEN Walk(IF at = <<>> THEN at ELSE SubSeq(at, 1, Len(at) - 1), Tail(names))
    ELSE IF (at \o <<n>>) \in Dirs \cup Files
    THEN Walk(at \o <<n>>, Tail(names))
    ELSE NoEnt

\* A translated path: the names joined by os.path.join, and whether a "/" ends it.
Resolve(tp) == Walk(cwd, tp.names)

\* os.path.isdir
isdir(tp) == Resolve(tp) \in Dirs

\* os.path.isfile
isfile(names) == Walk(cwd, names) \in Files

\* open(path, 'rb') succeeds
CanOpen(tp) == Resolve(tp) \in Files /\ ~tp.slash

\* ------------------------------------------------- SimpleHTTPRequestHandler
\* Mutant: translate_path joins every word, "." and ".." too.
RECURSIVE JoinWords_unfiltered(_, _)
JoinWords_unfiltered(path, words) ==
  IF words = <<>> THEN path
  ELSE IF Head(words) = <<>> THEN JoinWords_unfiltered(path, Tail(words))
  ELSE JoinWords_unfiltered(path \o <<Head(words)>>, Tail(words))

\* translate_path: the request path without its query and fragment, unquoted and
\* normalised; its words, those that are not plain names dropped, are joined to
\* the served directory.
RECURSIVE JoinWords(_, _)
JoinWords(path, words) ==
  IF words = <<>> THEN path
  ELSE LET word == Head(words) IN
    IF word = <<>> THEN JoinWords(path, Tail(words))
    ELSE IF "/" \in Range(word) \/ word = dot \/ word = dotdot
    THEN JoinWords(path, Tail(words))
    ELSE JoinWords(path \o <<word>>, Tail(words))

translate_path(path) ==
  LET p1 == Before(Before(path, "?"), "#")
      trailing_slash == p1 # <<>> /\ p1[Len(p1)] = "/"
      words == Split(normpath(unquote(p1)))
  IN [names |-> JoinWords(directory, words), slash |-> trailing_slash]

\* ------------------------------------------------ BaseHTTPRequestHandler
\* The protocol the handler class speaks: the library's default, which the
\* subclass does not override.
protocol_version == "HTTP/1.0"

\* A version word as the pair parse_request compares, major * 10 + minor; -1 for
\* a word that is no HTTP version.
VersionNumber(v) ==
  CASE v = "HTTP/0.9" -> 9
    [] v = "HTTP/1.0" -> 10
    [] v = "HTTP/1.1" -> 11
    [] v = "HTTP/2.0" -> 20
    [] OTHER -> -1

Methods == {"GET", "HEAD", "OPTIONS", "POST"}
VersionWords == {"HTTP/0.9", "HTTP/1.0", "HTTP/1.1", "HTTP/2.0", "HTTP/x"}
\* The shapes of a request line: longer than 65536 bytes, or split into 0 to 4 words
\* (with 3 or more, the last word is the version).
LineShapes == {"toolong", "0words", "1word", "2words", "3words", "4words"}
ConnectionValues == {"", "keep-alive", "close"}

\* The requests clients send for the paths in `from`.
Requests(from) ==
  [line : LineShapes, command : Methods, path : from, version : VersionWords,
   connection : ConnectionValues, ims : BOOLEAN]

CORSHeaders ==
  { <<"Access-Control-Allow-Origin", "*">>,
    <<"Access-Control-Allow-Methods", "GET, OPTIONS">>,
    <<"Access-Control-Allow-Headers", "*">>,
    <<"Cache-Control", "no-store, no-cache, must-revalidate, max-age=0">> }

\* The one element of a singleton set.
Only(S) == CHOOSE x \in S : TRUE

\* send_header: the header joins the buffer unless the request is HTTP/0.9.
send_header(request_version, buffer, keyword, value) ==
  IF request_version # "HTTP/0.9" THEN buffer \cup {<<keyword, value>>} ELSE buffer

\* BaseHTTPRequestHandler.end_headers: the buffer is flushed, unless the request
\* is HTTP/0.9, which gets no status line and no header.
base_end_headers(request_version, buffer) ==
  IF request_version # "HTTP/0.9"
  THEN [head |-> TRUE, headers |-> buffer]
  ELSE [head |-> FALSE, headers |-> {}]

\* Mutant: end_headers not overridden, the base class's alone runs.
end_headers_without_cors(request_version, buffer) ==
  base_end_headers(request_version, buffer)

\* CORSRequestHandler.end_headers: the four headers, then the base class's.
end_headers(request_version, buffer) ==
  base_end_headers(request_version,
    send_header(request_version,
      send_header(request_version,
        send_header(request_version,
          send_header(request_version, buffer,
                      "Access-Control-Allow-Origin", "*"),
          "Access-Control-Allow-Methods", "GET, OPTIONS"),
        "Access-Control-Allow-Headers", "*"),
      "Cache-Control", "no-store, no-cache, must-revalidate, max-age=0"))

\* send_response: the status line, Server and Date.
send_response(request_version) ==
  send_header(request_version,
              send_header(request_version, {}, "Server", "SimpleHTTP"),
              "Date", "now")

\* What one call of handle_one_request wrote and left behind: the flushed head
\* and headers, with the status, self.command ("None" when the request line did
\* not parse), the body written (f: the file or listing that
\* send_head opened), whether the connection is to be closed and whether the
\* filesystem was looked at.
Reply(status, flushed, command, body, f, close_conn, fs) ==
  flushed @@ [answered |-> TRUE, status |-> status, command |-> command,
              body |-> body, file |-> f, close_connection |-> close_conn,
              fs |-> fs]

\* A request line without words: parse_request returns False, nothing is written.
NoAnswer ==
  [answered |-> FALSE, status |-> 0, command |-> "None", head |-> FALSE,
   headers |-> {},
   body |-> <<"empty">>, file |-> NoEnt, close_connection |-> TRUE, fs |-> FALSE]

\* Mutant: send_error without the Connection: close header, the connection kept.
send_error_keep_open(request_version, command, code, fs) ==
  Reply(code,
        end_headers(request_version,
          send_header(request_version,
            send_header(request_version, send_response(request_version),
                        "Content-Type", "text/html"),
            "Content-Length", "n")),
        command, IF command # "HEAD" THEN <<"error">> ELSE <<"empty">>, NoEnt,
        FALSE, fs)

\* send_error: an error page with Connection: close, which closes the connection.
send_error(request_version, command, code, fs) ==
  Reply(code,
        end_headers(request_version,
          send_header(request_version,
            send_header(request_version,
              send_header(request_version, send_response(request_version),
                          "Connection", "close"),
              "Content-Type", "text/html"),
            "Content-Length", "n")),
        command, IF command # "HEAD" THEN <<"error">> ELSE <<"empty">>, NoEnt,
        TRUE, fs)

\* do_OPTIONS: 200 and the headers, nothing else.
do_OPTIONS(request_version, close_conn) ==
  Reply(200, end_headers(request_version, send_response(request_version)),
        "OPTIONS", <<"empty">>, NoEnt, close_conn, FALSE)

\* send_head once translate_path has given tp; ends_slash says that the request
\* path ends with "/", ims that the request's If-Modified-Since is not older
\* than the file.
send_head_at(request_version, command, tp, ends_slash, ims, close_conn) ==
  IF isdir(tp) /\ ~ends_slash
  THEN Reply(301,
             end_headers(request_version,
               send_header(request_version,
                 send_header(request_version, send_response(request_version),
                             "Location", "path/"),
                 "Content-Length", "0")),
             command, <<"empty">>, NoEnt, close_conn, TRUE)
  ELSE IF isdir(tp) /\ ~isfile(tp.names \o << <<"index.html">> >>)
          /\ ~isfile(tp.names \o << <<"index.htm">> >>)
  THEN \* list_directory
       Reply(200,
             end_headers(request_version,
               send_header(request_version,
                 send_header(request_version, send_response(request_version),
                             "Content-type", "text/html"),
                 "Content-Length", "n")),
             command, <<"listing">>, Resolve(tp), close_conn, TRUE)
  ELSE LET served ==
             IF ~isdir(tp) THEN tp
             ELSE IF isfile(tp.names \o << <<"index.html">> >>)
             THEN [names |-> tp.names \o << <<"index.html">> >>, slash |-> FALSE]
             ELSE [names |-> tp.names \o << <<"index.htm">> >>, slash |-> FALSE]
       IN IF served.slash \/ ~CanOpen(served)
          THEN send_error(request_version, command, 404, TRUE)
          ELSE IF ims
          THEN Reply(304,
                     end_headers(request_version, send_response(request_version)),
                     command, <<"empty">>, NoEnt, close_conn, TRUE)
          ELSE Reply(200,
                     end_headers(request_version,
                       send_header(request_version,
                         send_header(request_version,
                           send_header(request_version,
                                       send_response(request_version),
                                       "Content-type", "guessed"),
                           "Content-Length", "n"),
                         "Last-Modified", "mtime")),
                     command, <<"file">>, Resolve(served), close_conn, TRUE)

\* send_head: the path is translated, then looked up.
send_head(request_version, command, path, ims, close_conn) ==
  Only({ send_head_at(request_version, command, tp,
                      LET parts_path == Before(Before(path, "?"), "#")
                      IN parts_path # <<>> /\ parts_path[Len(parts_path)] = "/",
                      ims, close_conn)
         : tp \in {translate_path(path)} })

\* do_GET: send_head, then copyfile writes what send_head opened.
do_GET(request_version, command, path, ims, close_conn) ==
  send_head(request_version, command, path, ims, close_conn)

\* do_HEAD: send_head, and what it opened is closed unread.
do_HEAD(request_version, command, path, ims, close_conn) ==
  [send_head(request_version, command, path, ims, close_conn)
     EXCEPT !.body = IF @ \in {<<"file">>, <<"listing">>} THEN <<"empty">> ELSE @,
            !.file = NoEnt]

\* parse_request's collapse of leading slashes (gh-87389).
collapse_slashes(path) ==
  IF Len(path) >= 2 /\ path[1] = "/" /\ path[2] = "/"
  THEN <<"/">> \o LStripSlash(path) ELSE path

\* The number of words of a request line.
Words(req) ==
  CASE req.line = "0words" -> 0 [] req.line = "1word" -> 1
    [] req.line = "2words" -> 2 [] req.line = "3words" -> 3
    [] OTHER -> 4

\* close_connection as parse_request leaves it for a request that parsed.
close_connection(req) ==
  IF req.connection = "close" THEN TRUE
  ELSE IF req.connection = "keep-alive" /\ VersionNumber(protocol_version) >= 11
  THEN FALSE
  ELSE IF Words(req) = 2 THEN TRUE
  ELSE ~(VersionNumber(req.version) >= 11 /\ VersionNumber(protocol_version) >= 11)

\* Mutant: the handler class has no do_OPTIONS.
HasMethod_without_OPTIONS(command) == command \in {"GET", "HEAD"}

\* The methods the handler class has a do_ method for.
HasMethod(command) == command \in {"GET", "HEAD", "OPTIONS"}

\* The do_ method of a request that parsed.
dispatch(req, request_version) ==
  IF ~HasMethod(req.command)
  THEN send_error(request_version, req.command, 501, FALSE)
  ELSE IF req.command = "OPTIONS"
  THEN do_OPTIONS(request_version, close_connection(req))
  ELSE IF req.command = "HEAD"
  THEN do_HEAD(request_version, req.command, collapse_slashes(req.path),
               req.ims, close_connection(req))
  ELSE do_GET(request_version, req.command, collapse_slashes(req.path),
              req.ims, close_connection(req))

\* handle_one_request: the request line is read and parsed (parse_request), the
\* do_ method of its command runs, and the reply is written.
handle_one_request(req) ==
  IF req.line = "toolong" THEN send_error("", "", 414, FALSE)
  ELSE IF Words(req) = 0 THEN NoAnswer
  ELSE IF Words(req) >= 3 /\ VersionNumber(req.version) = -1
  THEN send_error("HTTP/0.9", "None", 400, FALSE)
  ELSE IF Words(req) >= 3 /\ VersionNumber(req.version) >= 20
  THEN send_error("HTTP/0.9", "None", 505, FALSE)
  ELSE IF ~(2 <= Words(req) /\ Words(req) <= 3)
  THEN send_error(IF Words(req) >= 3 THEN req.version ELSE "HTTP/0.9", "None", 400,
                  FALSE)
  ELSE IF Words(req) = 2 /\ req.command # "GET"
  THEN send_error("HTTP/0.9", "None", 400, FALSE)
  ELSE dispatch(req, IF Words(req) >= 3 THEN req.version ELSE "HTTP/0.9")

\* ------------------------------------------------------------ the process
Conns == 1..MaxConns

\* Paths of every kind: a file, a directory without and with its slash, a
\* directory without index, a path through a file, traversals with and without a
\* leading slash, and a doubled slash.
SamplePaths ==
  { <<"/", "a">>, <<"/", "a", "a">>, <<"/", "a", "a", "/">>,
    <<"/", "a", "a", "a", "/">>, <<"/", "a", "/", "a">>,
    <<"/", ".", ".", "/", ".", ".", "/", "a">>, <<".", ".", "/", "a">>,
    <<"/", "/", "a">> }

UrlAlphabet == {"/", ".", "a", "%2e", "%2f", "?"}
AllPaths == UNION {[1..n -> UrlAlphabet] : n \in 1..MaxPathLen}

Request(line, command, path, version, connection) ==
  [line |-> line, command |-> command, path |-> path, version |-> version,
   connection |-> connection, ims |-> FALSE]

\* What the clients of the server specification send: a file, a missing file (asking
\* to keep the connection), an unsupported method, a preflight and a malformed
\* request line.
SampleRequests ==
  { Request("3words", "GET", <<"/", "a">>, "HTTP/1.0", ""),
    Request("3words", "GET", <<"/", "a", "/", "a">>, "HTTP/1.1", "keep-alive"),
    Request("3words", "POST", <<"/", "a">>, "HTTP/1.1", "keep-alive"),
    Request("3words", "OPTIONS", <<"/", "a", "/", "a">>, "HTTP/1.1", "keep-alive"),
    Request("3words", "GET", <<"/", "a">>, "HTTP/x", "") }

\* What the clients of the request specification send: every shape of request for
\* the sample paths, and a GET and a HEAD for every path of up to MaxPathLen tokens.
AllRequests ==
  Requests(SamplePaths)
  \cup { Request("3words", m, p, "HTTP/1.0", "") :
          m \in {"GET", "HEAD"}, p \in AllPaths }

NoReply == [conn |-> 0]

VARIABLES
  pc,            \* where main() is: Created (line 45 not yet run), Bound (46),
                 \* Serving (48), Except (50), Finally (52), Exit (the with
                 \* statement's exit), Exited
  sock,          \* the listening socket: "none", "open", "closed"
  close_calls,   \* calls of server_close()
  releases,      \* times the socket's descriptor was given back to the system
  binds,         \* calls of bind()
  bound,         \* how bind() ended: "none" (not called), "ok", "error"
  stderr,        \* main's lines on the diagnostic stream
  exit_code,     \* the process's exit code, -1 while it runs
  sigint,        \* where the interrupt arrived: "none", "Bound", "Serving"
  conn,          \* each connection: "idle", "backlog", "accepted", "closed"
  backlog,       \* the listen queue
  current,       \* the connection whose handler runs, 0 for none
  inflight,      \* requests sent and not yet read, per connection
  hungup,        \* clients that closed their end
  answered,      \* replies written, per connection
  failures,      \* requests that ended in an error reply or an exception
  last,          \* the last reply written, with its request
  reqs           \* the requests the clients may send

vars == <<pc, sock, close_calls, releases, binds, bound, stderr, exit_code, sigint, conn,
          backlog, current, inflight, hungup, answered, failures, last, reqs>>

procVars == <<pc, sock, close_calls, releases, binds, bound, stderr, exit_code,
              sigint>>
connVars == <<conn, backlog, current, inflight, hungup, answered, failures, last>>

\* The server's state, as the specification names it.
state ==
  CASE pc = "Created" -> "Created"
    [] pc = "Bound" -> "Bound"
    [] pc = "Serving" -> "Serving"
    [] pc \in {"Except", "Finally"} -> "ShuttingDown"
    [] OTHER -> "Closed"

InitProcess ==
  /\ pc = "Created" /\ sock = "none" /\ close_calls = 0 /\ releases = 0
  /\ binds = 0 /\ bound = "none" /\ stderr = <<>> /\ exit_code = -1 /\ sigint = "none"
  /\ conn = [c \in Conns |-> "idle"] /\ backlog = <<>> /\ current = 0
  /\ inflight = [c \in Conns |-> 0] /\ hungup = {}
  /\ answered = [c \in Conns |-> 0] /\ failures = 0 /\ last = NoReply

Init == InitProcess /\ reqs = SampleRequests

\* Mutant: a close that releases the descriptor whatever the socket's state.
socket_close_again(s) == 1

\* socket.close(): the descriptor is released unless it already was.
socket_close(s) == IF s = "open" THEN 1 ELSE 0

\* TCPServer.server_close(): closes the socket; the kernel resets what waits in
\* the listen queue.
server_close ==
  /\ close_calls' = close_calls + 1
  /\ releases' = releases + socket_close(sock)
  /\ sock' = "closed"
  /\ conn' = [c \in Conns |-> IF conn[c] = "backlog" THEN "closed" ELSE conn[c]]
  /\ backlog' = <<>>

\* Mutant: a failed bind() falls back to another port and goes on.
BindFailure_fallback ==
  /\ sock = "none"
  /\ binds' = binds + 2
  /\ bound' = "error"
  /\ sock' = "open"
  /\ pc' = "Bound"
  /\ UNCHANGED <<close_calls, releases, stderr, exit_code, sigint, connVars, reqs>>

\* bind() failed (address in use, permission denied): the constructor closes the
\* socket and raises; nothing in main catches it, the process ends with a traceback.
BindFailure ==
  /\ sock = "none"
  /\ binds' = binds + 1
  /\ bound' = "error"
  /\ close_calls' = close_calls + 1
  /\ releases' = releases + socket_close("open")
  /\ sock' = "closed"
  /\ stderr' = Append(stderr, "Traceback")
  /\ exit_code' = 1
  /\ pc' = "Exited"
  /\ UNCHANGED <<sigint, connVars, reqs>>

\* bind() and listen() succeeded.
BindSuccess ==
  /\ binds' = binds + 1
  /\ bound' = "ok"
  /\ sock' = "open"
  /\ pc' = "Bound"
  /\ UNCHANGED <<close_calls, releases, stderr, exit_code, sigint, connVars, reqs>>

\* Line 45: socketserver.TCPServer(("", args.port), handler_factory).
TCPServer_init ==
  /\ pc = "Created"
  /\ (BindSuccess \/ BindFailure)

\* Line 46: the startup message, then serve_forever().
print_serving ==
  /\ pc = "Bound"
  /\ stderr' = Append(stderr, "Serving")
  /\ pc' = "Serving"
  /\ UNCHANGED <<sock, close_calls, releases, binds, bound, exit_code, sigint, connVars, reqs>>

\* A client connects: the kernel queues it while the socket listens.
Connect(c) ==
  /\ sock = "open"
  /\ conn[c] = "idle"
  /\ conn' = [conn EXCEPT ![c] = "backlog"]
  /\ backlog' = Append(backlog, c)
  /\ UNCHANGED <<procVars, current, inflight, hungup, answered, failures, last, reqs>>

\* A client sends a request on its connection.
Send(c) ==
  /\ conn[c] \in {"backlog", "accepted"}
  /\ c \notin hungup
  /\ inflight[c] < MaxPipelined
  /\ inflight' = [inflight EXCEPT ![c] = @ + 1]
  /\ UNCHANGED <<procVars, conn, backlog, current, hungup, answered, failures, last, reqs>>

\* A client closes its end.
Hangup(c) ==
  /\ conn[c] \in {"backlog", "accepted"}
  /\ c \notin hungup
  /\ hungup' = hungup \cup {c}
  /\ UNCHANGED <<procVars, conn, backlog, current, inflight, answered, failures, last, reqs>>

\* Mutant: a threading server, which accepts while handlers run.
CanAccept_threaded == pc = "Serving"

\* serve_forever may take the next connection: it is in its select(), no handler
\* running (TCPServer.process_request runs the handler in the loop's own thread).
CanAccept == pc = "Serving" /\ current = 0

\* serve_forever: select() finds the socket readable and get_request() accepts;
\* the handler is constructed and blocks reading the request line.
get_request ==
  /\ CanAccept
  /\ backlog # <<>>
  /\ current' = Head(backlog)
  /\ backlog' = Tail(backlog)
  /\ conn' = [conn EXCEPT ![Head(backlog)] = "accepted"]
  /\ UNCHANGED <<procVars, inflight, hungup, answered, failures, last, reqs>>

\* The handler's loop: after a reply the connection is shut down and closed when
\* close_connection is set, else the next request line is awaited.
Handle(c, req) ==
  /\ pc = "Serving"
  /\ current = c
  /\ inflight[c] > 0
  /\ \E r \in {handle_one_request(req)} :
     /\ inflight' = [inflight EXCEPT ![c] = @ - 1]
     /\ answered' = [answered EXCEPT ![c] = @ + (IF r.answered THEN 1 ELSE 0)]
     /\ last' = IF r.answered
                THEN [conn |-> c, req |-> req, reply |-> r]
                ELSE last
     /\ failures' = failures + (IF r.answered /\ r.status >= 400 THEN 1 ELSE 0)
     /\ IF r.close_connection
        THEN conn' = [conn EXCEPT ![c] = "closed"] /\ current' = 0
        ELSE UNCHANGED <<conn, current>>
     /\ UNCHANGED <<procVars, backlog, hungup, reqs>>

\* The handler reads a request and answers it.
handle(c) == \E req \in reqs : Handle(c, req)

\* The handler reads end of file: the client went away; no reply.
handle_eof(c) ==
  /\ pc = "Serving"
  /\ current = c
  /\ inflight[c] = 0
  /\ c \in hungup
  /\ conn' = [conn EXCEPT ![c] = "closed"]
  /\ current' = 0
  /\ UNCHANGED <<procVars, backlog, inflight, hungup, answered, failures, last, reqs>>

\* Mutant: the handler's exception is not caught and ends serve_forever and main.
handle_error_propagates(c) ==
  /\ pc = "Serving"
  /\ current = c
  /\ server_close
  /\ current' = 0
  /\ failures' = failures + 1
  /\ stderr' = Append(stderr, "Traceback")
  /\ exit_code' = 1
  /\ pc' = "Exited"
  /\ UNCHANGED <<binds, bound, sigint, inflight, hungup, answered, last, reqs>>

\* The handler raises (a reset connection, a broken pipe): _handle_request_noblock
\* catches it, handle_error prints the traceback, the connection is closed, and
\* serve_forever goes on.
handle_error(c) ==
  /\ pc = "Serving"
  /\ current = c
  /\ conn' = [conn EXCEPT ![c] = "closed"]
  /\ current' = 0
  /\ failures' = failures + 1
  /\ UNCHANGED <<procVars, backlog, inflight, hungup, answered, last, reqs>>

\* Ctrl-C inside serve_forever: KeyboardInterrupt, no Exception, passes the
\* handler's and the loop's clauses (a connection being handled is closed on the
\* way) and reaches main's except clause.
InterruptServing ==
  /\ pc = "Serving"
  /\ sigint' = "Serving"
  /\ pc' = "Except"
  /\ conn' = [c \in Conns |-> IF c = current THEN "closed" ELSE conn[c]]
  /\ current' = 0
  /\ UNCHANGED <<sock, close_calls, releases, binds, bound, stderr, exit_code, backlog,
                 inflight, hungup, answered, failures, last, reqs>>

\* Ctrl-C before serve_forever, outside the try statement: the with statement's
\* exit closes the server and the interrupt ends the process.
InterruptBound ==
  /\ pc = "Bound"
  /\ sigint' = "Bound"
  /\ server_close
  /\ stderr' = Append(stderr, "Traceback")
  /\ exit_code' = 130
  /\ pc' = "Exited"
  /\ UNCHANGED <<binds, bound, current, inflight, hungup, answered, failures, last, reqs>>

KeyboardInterrupt == InterruptServing \/ InterruptBound

\* Mutant: no except clause; the interrupt passes the finally clause and the with
\* statement and ends the process.
except_KeyboardInterrupt_uncaught ==
  /\ pc = "Except"
  /\ server_close
  /\ stderr' = Append(stderr, "Traceback")
  /\ exit_code' = 130
  /\ pc' = "Exited"
  /\ UNCHANGED <<binds, bound, sigint, current, inflight, hungup, answered, failures,
                 last, reqs>>

\* Line 50: the except clause prints the shutdown message.
except_KeyboardInterrupt ==
  /\ pc = "Except"
  /\ stderr' = Append(stderr, "Shutting down")
  /\ pc' = "Finally"
  /\ UNCHANGED <<sock, close_calls, releases, binds, bound, exit_code, sigint, connVars, reqs>>

\* Mutant: a finally clause that does not close the server.
finally_without_close ==
  /\ pc = "Finally"
  /\ pc' = "Exit"
  /\ UNCHANGED <<sock, close_calls, releases, binds, bound, stderr, exit_code, sigint,
                 connVars, reqs>>

\* Line 52: the finally clause closes the server.
finally_server_close ==
  /\ pc = "Finally"
  /\ server_close
  /\ pc' = "Exit"
  /\ UNCHANGED <<binds, bound, stderr, exit_code, sigint, current, inflight, hungup,
                 answered, failures, last, reqs>>

\* The with statement's exit closes the server again; main returns.
with_exit ==
  /\ pc = "Exit"
  /\ server_close
  /\ exit_code' = 0
  /\ pc' = "Exited"
  /\ UNCHANGED <<binds, bound, stderr, sigint, current, inflight, hungup, answered,
                 failures, last, reqs>>

MainStep ==
  \/ TCPServer_init
  \/ print_serving
  \/ except_KeyboardInterrupt
  \/ finally_server_close
  \/ with_exit

ServerStep ==
  \/ get_request
  \/ \E c \in Conns : handle(c)
  \/ \E c \in Conns : handle_eof(c)

Next ==
  \/ MainStep
  \/ ServerStep
  \/ \E c \in Conns : handle_error(c)
  \/ KeyboardInterrupt
  \/ \E c \in Conns : Connect(c)
  \/ \E c \in Conns : Send(c)
  \/ \E c \in Conns : Hangup(c)

Spec == Init /\ [][Next]_vars

\* The interpreter runs main: a statement of main that can execute does; clients
\* and the interrupt are under no obligation.
FairSpec == Spec /\ WF_vars(MainStep)

\* ---------------------------------------------- the request specification
\* A server in its loop with one accepted connection, whose client sent one
\* request out of AllRequests.
InitRequest ==
  /\ pc = "Serving" /\ sock = "open" /\ close_calls = 0 /\ releases = 0
  /\ binds = 1 /\ bound = "ok" /\ stderr = <<"Serving">> /\ exit_code = -1 /\ sigint = "none"
  /\ conn = [c \in Conns |-> IF c = 1 THEN "accepted" ELSE "idle"]
  /\ backlog = <<>> /\ current = 1
  /\ inflight = [c \in Conns |-> IF c = 1 THEN 1 ELSE 0] /\ hungup = {}
  /\ answered = [c \in Conns |-> 0] /\ failures = 0 /\ last = NoReply
  /\ \E q \in AllRequests : reqs = {q}

SpecRequest == InitRequest /\ [][handle(1)]_vars

\* ------------------------------------------------------------- the claims
Answered == last # NoReply

\* A request line that leaves request_version at an HTTP/1.x value (or, over-long,
\* at the empty string): its reply has a status line and headers.
HasVersion1(req) ==
  \/ req.line = "toolong"
  \/ Words(req) >= 3 /\ VersionNumber(req.version) \in 10..19

\* C1 as stated: every reply, whatever the request, carries the four CORS and
\* no-cache headers.
C1_Original == Answered => CORSHeaders \subseteq last.reply.headers

\* C1, amended: every reply to a request line that is over-long or ends in a
\* well-formed version from HTTP/1.0 up to HTTP/2.0 excluded carries the four
\* headers, whatever the path, the method and the status; the reply to any other
\* request line has no status line and no header at all.
C1_Amended ==
  Answered =>
    IF HasVersion1(last.req)
    THEN last.reply.head /\ CORSHeaders \subseteq last.reply.headers
    ELSE ~last.reply.head /\ last.reply.headers = {}

C1_Witness ==
  /\ Answered
  /\ last.reply.status = 501
  /\ last.req.command = "POST"
  /\ CORSHeaders \subseteq last.reply.headers

C3_BindFailure ==
  /\ binds <= 1
  /\ bound = "error" =>
       /\ pc = "Exited"
       /\ exit_code \notin {-1, 0}
       /\ "Serving" \notin Range(stderr)
       /\ \A c \in Conns : conn[c] = "idle"
       /\ sock # "open"

C3_Witness == bound = "error" /\ pc = "Exited" /\ exit_code = 1

\* C4: an interrupt that arrives in serve_forever, idle or handling a request,
\* leads to the shutdown message, a closed listening socket and exit code 0, and
\* from the interrupt on no connection is accepted or being handled.
C4_Interrupt ==
  /\ (sigint = "Serving") ~>
       (/\ pc = "Exited"
        /\ exit_code = 0
        /\ sock = "closed"
        /\ "Shutting down" \in Range(stderr))
  /\ [][sigint' = "Serving" => \A c \in Conns : conn'[c] # "accepted"]_vars

C4_Witness ==
  /\ sigint = "Serving"
  /\ pc = "Exited"
  /\ exit_code = 0
  /\ \E c \in Conns : conn[c] = "closed" /\ answered[c] = 0 /\ inflight[c] > 0

\* C5 as stated: when the process has ended and a socket was created, the release
\* operation, server_close(), was performed exactly once.
C5_Original == (pc = "Exited" /\ sock # "none") => close_calls = 1

\* C5, amended: the socket's descriptor is released exactly once on every run that
\* created it, but server_close() is called twice when the try statement was
\* entered (by the finally clause, then by the with statement's exit), the second
\* call finding the socket closed; it is called once on a failed bind and on an
\* interrupt before the try statement.
C5_Amended ==
  /\ releases <= 1
  /\ (pc = "Exited" /\ sock # "none") =>
       /\ releases = 1
       /\ sock = "closed"
       /\ close_calls = IF sigint = "Serving" THEN 2 ELSE 1

C5_Witness == pc = "Exited" /\ close_calls = 2 /\ releases = 1

Rank(st) ==
  CASE st = "Created" -> 0 [] st = "Bound" -> 1 [] st = "Serving" -> 2
    [] st = "ShuttingDown" -> 3 [] OTHER -> 4

\* state as the next state has it.
StateNext ==
  CASE pc' = "Created" -> "Created"
    [] pc' = "Bound" -> "Bound"
    [] pc' = "Serving" -> "Serving"
    [] pc' \in {"Except", "Finally"} -> "ShuttingDown"
    [] OTHER -> "Closed"

\* C6: the server's state only moves forward in the order Created, Bound, Serving,
\* ShuttingDown, Closed; Bound is entered by a successful bind, Serving from Bound,
\* ShuttingDown from Serving by the interrupt, Closed with the socket released;
\* nothing leaves Closed; and the socket is open exactly in Bound, Serving and
\* ShuttingDown.
C6_Lifecycle ==
  /\ [](sock = "open" <=> state \in {"Bound", "Serving", "ShuttingDown"})
  /\ [][/\ Rank(StateNext) >= Rank(state)
        /\ (StateNext = "Bound" /\ state # "Bound") =>
             state = "Created" /\ bound' = "ok"
        /\ (StateNext = "Serving" /\ state # "Serving") =>
             state = "Bound" /\ bound = "ok"
        /\ (StateNext = "ShuttingDown" /\ state # "ShuttingDown") =>
             state = "Serving" /\ sigint' = "Serving"
        /\ (StateNext = "Closed" /\ state # "Closed") =>
             sock' = "closed" /\ releases' = 1
        /\ state = "Closed" => StateNext = "Closed"]_vars

C6_Witness ==
  /\ state = "Closed"
  /\ sigint = "Serving"
  /\ stderr = <<"Serving", "Shutting down">>

\* C7: the file or the listing a GET is answered with lies under the served root,
\* whatever ".." segments, escaped or not, the request path holds.
C7_UnderRoot ==
  (Answered /\ last.reply.body \in {<<"file">>, <<"listing">>}) =>
    IsPrefix(RootDir, last.reply.file)

C7_Witness ==
  /\ Answered
  /\ last.req.path = <<"%2e", ".", "/", "a">>
  /\ last.reply.body = <<"file">>
  /\ last.reply.file = RootDir \o << <<"a">> >>

IsMissing404 ==
  /\ Answered
  /\ last.req.command = "GET"
  /\ last.reply.status = 404

\* C8 as stated: after a 404 for a missing path the connection is still open for
\* a further request.
C8_Original == IsMissing404 => conn[last.conn] = "accepted"

\* C8, amended: the 404 for a missing path carries Connection: close and the
\* server closes the connection with it, also when the request asked to keep it;
\* no connection gets a second reply, a further request sent on it stays unread.
C8_Amended ==
  /\ IsMissing404 =>
       /\ conn[last.conn] = "closed"
       /\ HasVersion1(last.req) => <<"Connection", "close">> \in last.reply.headers
  /\ \A c \in Conns : answered[c] <= 1

C8_Witness ==
  /\ IsMissing404
  /\ last.req.connection = "keep-alive"
  /\ inflight[last.conn] > 0
  /\ conn[last.conn] = "closed"

\* A connection waits in the listen queue, its request sent, while the handler of
\* another waits for its client.
SlowClientBlocks ==
  /\ pc = "Serving"
  /\ current # 0
  /\ inflight[current] = 0
  /\ backlog # <<>>
  /\ inflight[Head(backlog)] > 0

\* C9 as stated: while one connection's request is being handled the server
\* still accepts the other connections.
C9_Original == SlowClientBlocks => ENABLED get_request

\* C9, amended: connections are handled one at a time; while one is being
\* handled, be its client slow, no other connection is accepted or answered, and
\* at most one connection is accepted at any time.
C9_Amended ==
  /\ [](Cardinality({c \in Conns : conn[c] = "accepted"}) <= 1)
  /\ [](current # 0 => conn[current] = "accepted")
  /\ [][current # 0 =>
          \A d \in Conns \ {current} :
            /\ answered'[d] = answered[d]
            /\ conn'[d] = "accepted" => conn[d] = "accepted"]_vars

C9_Witness == SlowClientBlocks /\ answered[Head(backlog)] = 0

\* C10: a request that fails (an error reply, or an exception in the handler)
\* leaves the server in serve_forever with its socket open; after failures the
\* server still accepts the next connection; and the process ends only after a
\* failed bind or an interrupt.
C10_Contained ==
  /\ [][failures' > failures =>
          pc' = "Serving" /\ sock' = "open" /\ exit_code' = -1]_vars
  /\ [](pc = "Exited" => bound = "error" \/ sigint # "none")
  /\ []((failures > 0 /\ pc = "Serving" /\ current = 0 /\ backlog # <<>>) =>
          ENABLED get_request)

\* A connection was accepted after a request on an earlier one had failed.
C10_Witness ==
  /\ failures >= 1
  /\ pc = "Serving"
  /\ sock = "open"
  /\ current # 0
  /\ inflight[current] > 0
  /\ Answered
  /\ last.reply.status = 404

====
